---- MODULE Spec2Model ----
(***************************************************************************)
(* A model of the connector capability contract (psl-core), the runtime   *)
(* connection provider (sql-query-connector), the trace export helpers    *)
(* (query-engine core) and the execution of a migration plan.             *)
(***************************************************************************)
EXTENDS Integers, Sequences, FiniteSets, TLC

VARIABLES
    \* ---- connector capability model (datamodel_connector.rs)
    connector,      \* the connector under test: its static sets
    refQuery,       \* the (relation_mode, action) last asked, or NoQuery
    refResult,      \* what supports_referential_action answered
    \* ---- execution runtime (runtime.rs)
    pool,           \* the RuntimePool: Rust(Quaint) or Js(QueryableRef)
    isoFirst,       \* requires_isolation_first() of the underlying connections
    free,           \* native connections idle in the quaint pool
    pc,             \* per caller: idle, waiting, failed, ready, tx_start, in_tx
    handle,         \* per caller: the RuntimeConnection it holds, or NoHandle
    coErr,          \* per caller: the error its last check_out returned
    txIso,          \* per caller: the isolation level its transaction asked for
    txFlag,         \* per caller: requires_isolation_first() as read from its handle
    txLog,          \* per caller: statements its underlying connection observed
    last,           \* the last call made on a RuntimeConnection, or NoCall
    \* ---- trace export (trace_helpers/mod.rs)
    spans,          \* the SpanData list handed to spans_to_json
    json,           \* the spans emitted, or NoJson
    \* ---- migration plan execution
    plan,           \* the Migration Plan: a sequence of steps
    started,        \* indices of the steps started, in order
    completed,      \* indices of the steps completed successfully, in order
    planStatus,     \* running, done, failed
    \* ---- migration planning (diff engine)
    desired,        \* the desired Schema Representation
    actual,         \* the introspected Schema Representation
    diffPlan,       \* the Migration Plan the diff engine produced
    diffStatus,     \* idle, planned
    \* ---- capability queries (datamodel_connector.rs)
    capConnector,   \* the connector whose capabilities are queried
    schema,         \* the schema being validated when a query is made
    capQuery,       \* the capability query last made, or NoCapQuery
    capResult,      \* its answer
    capPrev,        \* an earlier query kept for comparison, with its answer
    \* ---- validation hooks (datamodel_connector.rs)
    defaults,       \* the scalar field defaults of the ParserDatabase
    diagnostics,    \* the Diagnostics collected so far
    diagBefore,     \* the Diagnostics when the last hook was entered
    lastValidation, \* the hook last run, or "none"
    \* ---- Flavour::from_str (datamodel_connector.rs)
    flavourInput,   \* the string parsed, as its characters
    flavourResult,  \* the Result returned, or NoFlavour
    \* ---- SourceFile (source_file.rs)
    sf,             \* two SourceFile values
    sfMade,         \* how each was built: constructor and text given
    sfCmp           \* the last comparison of the two, or NoCmp

connectorVars == <<connector, refQuery, refResult>>
runtimeVars == <<pool, isoFirst, free, pc, handle, coErr, txIso, txFlag, txLog, last>>
traceVars == <<spans, json>>
planVars == <<plan, started, completed, planStatus>>
diffVars == <<desired, actual, diffPlan, diffStatus>>
capVars == <<capConnector, schema, capQuery, capResult, capPrev>>
validationVars == <<defaults, diagnostics, diagBefore, lastValidation>>
flavourVars == <<flavourInput, flavourResult>>
sourceVars == <<sf, sfMade, sfCmp>>
psl == <<capVars, validationVars, flavourVars, sourceVars>>
vars == <<connectorVars, runtimeVars, traceVars, planVars, diffVars, psl>>
notRuntime == <<connectorVars, traceVars, planVars, diffVars, psl>>
notConnector == <<runtimeVars, traceVars, planVars, diffVars, psl>>
notTrace == <<connectorVars, runtimeVars, planVars, diffVars, psl>>
notPlan == <<connectorVars, runtimeVars, traceVars, diffVars, psl>>
core == <<connectorVars, runtimeVars, traceVars, planVars>>
notDiff == <<core, psl>>
notCap == <<core, diffVars, validationVars, flavourVars, sourceVars>>
notValidation == <<core, diffVars, capVars, flavourVars, sourceVars>>
notFlavour == <<core, diffVars, capVars, validationVars, sourceVars>>
notSource == <<core, diffVars, capVars, validationVars, flavourVars>>

(***************************************************************************)
(* Bounds of the model.                                                    *)
(***************************************************************************)
NumCallers == 2
PoolSize == 1

Callers == 1..NumCallers
NativeConns == 1..PoolSize

(***************************************************************************)
(* Values shared by the groups.                                            *)
(***************************************************************************)
Ok(v) == [tag |-> "Ok", val |-> v]
Err(e) == [tag |-> "Err", val |-> e]
Pending == [tag |-> "Pending", val |-> "none"]

\* opentelemetry attribute values, and Value::to_string
StringValue(s) == [t |-> "String", s |-> s, b |-> FALSE, n |-> 0]
BoolValue(b) == [t |-> "Bool", s |-> "", b |-> b, n |-> 0]
I64Value(n) == [t |-> "I64", s |-> "", b |-> FALSE, n |-> n]

(***************************************************************************)
(* Execution runtime: RuntimePool and RuntimeConnection.                   *)
(***************************************************************************)
NoHandle == [kind |-> "None", conn |-> 0]
NoCall == [op |-> "none"]
NoSpan == [name |-> <<>>]
NoIso == "None"
NoErr == [type |-> "none"]

RustPool == [kind |-> "Rust", queryable |-> 0]
JsPool == [kind |-> "Js", queryable |-> 0]

RustConnection(n) == [kind |-> "Rust", conn |-> n]
JsConnection(q) == [kind |-> "Js", conn |-> q]

\* quaint's own error type, as returned by the pool and by statements
PoolErrors == {[type |-> "quaint::Error", kind |-> "PoolTimeout"],
               [type |-> "quaint::Error", kind |-> "ConnectionError"]}
StatementError == [type |-> "quaint::Error", kind |-> "QueryError"]

\* crate::Result's error type: SqlError::from applied by map_err
SqlErrorFrom(e) == [type |-> "SqlError", source |-> e]

\* pool.check_out().await of the quaint pool: a free connection, an error, or
\* (no capacity, not yet waited) suspension; a suspended call ends with a
\* connection once one is free, or with the pool's timeout.
PoolCheckOut(fr, waited) ==
    IF fr # {}
    THEN {Ok(n) : n \in fr} \cup {Err([type |-> "quaint::Error", kind |-> "ConnectionError"])}
    ELSE IF waited
         THEN {Err([type |-> "quaint::Error", kind |-> "PoolTimeout"])}
         ELSE {Pending}

check_out_JsWaits(p, fr, waited) ==
    {CASE r.tag = "Ok" -> Ok(IF p.kind = "Rust" THEN RustConnection(r.val)
                                               ELSE JsConnection(p.queryable))
       [] r.tag = "Err" -> Err(SqlErrorFrom(r.val))
       [] OTHER -> Pending : r \in PoolCheckOut(fr, waited)}

check_out_ErrUnconverted(p, fr, waited) ==
    IF p.kind = "Rust"
    THEN {CASE r.tag = "Ok" -> Ok(RustConnection(r.val))
            [] r.tag = "Err" -> Err(r.val)
            [] OTHER -> Pending : r \in PoolCheckOut(fr, waited)}
    ELSE {Ok(JsConnection(p.queryable))}

\* RuntimePool::check_out: every outcome the call can have in this pool state
check_out(p, fr, waited) ==
    IF p.kind = "Rust"
    THEN {CASE r.tag = "Ok" -> Ok(RustConnection(r.val))
            [] r.tag = "Err" -> Err(SqlErrorFrom(r.val))
            [] OTHER -> Pending : r \in PoolCheckOut(fr, waited)}
    ELSE {Ok(JsConnection(p.queryable))}

\* The pool's idle set once a handle has been handed out
Reserve(h, fr) == IF h.kind = "Rust" THEN fr \ {h.conn} ELSE fr

drop_Leaks(h, fr) == fr

\* Dropping a RuntimeConnection: a PooledConnection goes back to its pool, an
\* Arc<dyn Queryable> clone is simply released.
drop(h, fr) == IF h.kind = "Rust" THEN fr \cup {h.conn} ELSE fr

Operations ==
    {"query", "query_raw", "query_raw_typed", "execute", "execute_raw",
     "execute_raw_typed", "raw_cmd", "version", "is_healthy",
     "set_tx_isolation_level"}

\* The arguments a caller passes, as a tuple
Args(op) ==
    CASE op \in {"query", "execute"} -> {<<"q1">>}
      [] op \in {"query_raw", "execute_raw", "execute_raw_typed"} -> {<<"SELECT 1">>}
      [] op = "query_raw_typed" -> {<<"SELECT 1">>, <<"SELECT ?", "p1">>}
      [] op = "raw_cmd" -> {<<"CREATE TABLE t">>}
      [] op = "set_tx_isolation_level" -> {<<"Serializable">>}
      [] OTHER -> {<<>>}

\* What the underlying connection may answer
UnderlyingResults(op) ==
    CASE op = "is_healthy" -> {[tag |-> "Bool", val |-> TRUE], [tag |-> "Bool", val |-> FALSE]}
      [] op = "version" -> {Ok("None"), Ok("Some"), Err(StatementError)}
      [] OTHER -> {Ok(op), Err(StatementError)}

span_for_WithStatement(h, op) ==
    IF h.kind = "Rust"
    THEN NoSpan
    ELSE [name |-> <<"runtime_connection", "js", op>>,
          attrs |-> [k \in {"user_facing", "db.params"} |-> BoolValue(TRUE)]]

span_for_HealthUntraced(h, op) ==
    IF h.kind = "Rust" \/ op = "is_healthy"
    THEN NoSpan
    ELSE [name |-> <<"runtime_connection", "js", op>>,
          attrs |-> [k \in {"user_facing"} |-> BoolValue(TRUE)]]

\* info_span!("runtime_connection::js::<op>", user_facing = true) of the Js arm;
\* the Rust arm opens no span.
span_for(h, op) ==
    IF h.kind = "Rust"
    THEN NoSpan
    ELSE [name |-> <<"runtime_connection", "js", op>>,
          attrs |-> [k \in {"user_facing"} |-> BoolValue(TRUE)]]

dispatch_TypedAsUntyped(h, op, args, ures) ==
    [issued |-> <<[conn |-> h.conn,
                   op |-> CASE op = "query_raw_typed" -> "query_raw"
                            [] op = "execute_raw_typed" -> "execute_raw"
                            [] OTHER -> op,
                   args |-> args]>>,
     result |-> ures,
     span |-> span_for(h, op)]

\* One operation of impl Queryable for RuntimeConnection: the calls it issues on
\* the underlying connection, the result it returns (ures is what the
\* underlying call answered) and the span it ran in.
dispatch(h, op, args, ures) ==
    [issued |-> <<[conn |-> h.conn, op |-> op, args |-> args]>>,
     result |-> ures,
     span |-> span_for(h, op)]

requires_isolation_first_Default(h) == FALSE

\* RuntimeConnection::requires_isolation_first: both arms ask the connection
requires_isolation_first(h) == isoFirst

InitRuntime ==
    /\ pool \in {RustPool, JsPool}
    /\ isoFirst \in BOOLEAN
    /\ free = IF pool.kind = "Rust" THEN NativeConns ELSE {}
    /\ pc = [c \in Callers |-> "idle"]
    /\ handle = [c \in Callers |-> NoHandle]
    /\ coErr = [c \in Callers |-> NoErr]
    /\ txIso = [c \in Callers |-> NoIso]
    /\ txFlag = [c \in Callers |-> FALSE]
    /\ txLog = [c \in Callers |-> <<>>]
    /\ last = NoCall

IdleRuntime ==
    /\ pool = JsPool
    /\ isoFirst = FALSE
    /\ free = {}
    /\ pc = [c \in Callers |-> "idle"]
    /\ handle = [c \in Callers |-> NoHandle]
    /\ coErr = [c \in Callers |-> NoErr]
    /\ txIso = [c \in Callers |-> NoIso]
    /\ txFlag = [c \in Callers |-> FALSE]
    /\ txLog = [c \in Callers |-> <<>>]
    /\ last = NoCall

\* What a caller sees when check_out answers o
Deliver(c, o) ==
    /\ pc' = [pc EXCEPT ![c] = CASE o.tag = "Ok" -> "ready"
                                 [] o.tag = "Err" -> "failed"
                                 [] OTHER -> "waiting"]
    /\ handle' = [handle EXCEPT ![c] = IF o.tag = "Ok" THEN o.val ELSE NoHandle]
    /\ coErr' = [coErr EXCEPT ![c] = IF o.tag = "Err" THEN o.val ELSE NoErr]
    /\ free' = IF o.tag = "Ok" THEN Reserve(o.val, free) ELSE free
    /\ UNCHANGED <<pool, isoFirst, txIso, txFlag, txLog, last, notRuntime>>

\* A caller calls check_out
CheckOut(c) ==
    /\ pc[c] = "idle"
    /\ \E o \in check_out(pool, free, FALSE) : Deliver(c, o)

\* A suspended check_out is resumed by the pool
Resume(c) ==
    /\ pc[c] = "waiting"
    /\ \E o \in check_out(pool, free, TRUE) : Deliver(c, o)

\* The caller of a failed check_out goes on without a connection
GiveUp(c) ==
    /\ pc[c] = "failed"
    /\ pc' = [pc EXCEPT ![c] = "idle"]
    /\ coErr' = [coErr EXCEPT ![c] = NoErr]
    /\ UNCHANGED <<pool, isoFirst, free, handle, txIso, txFlag, txLog, last, notRuntime>>

\* The record of one call on a RuntimeConnection
CallRecord(c, op, args, ures) ==
    LET d == dispatch(handle[c], op, args, ures)
    IN  [op |-> op, args |-> args, kind |-> handle[c].kind,
         conn |-> handle[c].conn, ures |-> ures,
         issued |-> d.issued, result |-> d.result, span |-> d.span]

\* A caller runs one operation on the connection it holds
Call(c) ==
    /\ pc[c] = "ready"
    /\ \E op \in Operations : \E args \in Args(op) : \E ures \in UnderlyingResults(op) :
          last' = CallRecord(c, op, args, ures)
    /\ UNCHANGED <<pool, isoFirst, free, pc, handle, coErr, txIso, txFlag, txLog, notRuntime>>

\* The caller is done with its connection
Drop(c) ==
    /\ pc[c] = "ready"
    /\ free' = drop(handle[c], free)
    /\ handle' = [handle EXCEPT ![c] = NoHandle]
    /\ pc' = [pc EXCEPT ![c] = "idle"]
    /\ txLog' = [txLog EXCEPT ![c] = <<>>]
    /\ txIso' = [txIso EXCEPT ![c] = NoIso]
    /\ UNCHANGED <<pool, isoFirst, coErr, txFlag, last, notRuntime>>

Begin == [op |-> "raw_cmd", args |-> <<"BEGIN">>]
SetIsolation(iso) == [op |-> "set_tx_isolation_level", args |-> <<iso>>]

\* TransactionCapable::start_transaction: the statements that open a
\* transaction, ordered by requires_isolation_first()
start_transaction(flag, iso) ==
    IF iso = NoIso
    THEN <<Begin>>
    ELSE IF flag THEN <<SetIsolation(iso), Begin>> ELSE <<Begin, SetIsolation(iso)>>

\* A caller opens a transaction on its connection: the flag is read first
StartTransaction(c) ==
    /\ pc[c] = "ready"
    /\ \E iso \in {NoIso, "Serializable"} : txIso' = [txIso EXCEPT ![c] = iso]
    /\ txFlag' = [txFlag EXCEPT ![c] = requires_isolation_first(handle[c])]
    /\ txLog' = [txLog EXCEPT ![c] = <<>>]
    /\ pc' = [pc EXCEPT ![c] = "tx_start"]
    /\ UNCHANGED <<pool, isoFirst, free, handle, coErr, last, notRuntime>>

\* The next statement of the opening sequence runs on the connection; the
\* first failing statement ends the attempt.
TxStep(c) ==
    /\ pc[c] = "tx_start"
    /\ LET stmts == start_transaction(txFlag[c], txIso[c])
           stmt == stmts[Len(txLog[c]) + 1]
       IN  \E ures \in UnderlyingResults(stmt.op) :
              LET rec == CallRecord(c, stmt.op, stmt.args, ures)
                  seen == txLog[c] \o rec.issued
              IN  /\ last' = rec
                  /\ txLog' = [txLog EXCEPT ![c] = seen]
                  /\ pc' = [pc EXCEPT ![c] =
                              IF rec.result.tag # "Ok" THEN "ready"
                              ELSE IF Len(seen) = Len(stmts) THEN "in_tx"
                              ELSE "tx_start"]
    /\ UNCHANGED <<pool, isoFirst, free, handle, coErr, txIso, txFlag, notRuntime>>

\* The transaction ends and the connection is free for the next operation
Commit(c) ==
    /\ pc[c] = "in_tx"
    /\ \E ures \in UnderlyingResults("raw_cmd") :
          last' = CallRecord(c, "raw_cmd", <<"COMMIT">>, ures)
    /\ pc' = [pc EXCEPT ![c] = "ready"]
    /\ UNCHANGED <<pool, isoFirst, free, handle, coErr, txIso, txFlag, txLog, notRuntime>>

NextRuntime ==
    \E c \in Callers :
        \/ CheckOut(c)
        \/ Resume(c)
        \/ GiveUp(c)
        \/ Call(c)
        \/ Drop(c)
        \/ StartTransaction(c)
        \/ TxStep(c)
        \/ Commit(c)

(***************************************************************************)
(* Connector capability model: ValidatedConnector.                         *)
(***************************************************************************)
ReferentialAction == {"Cascade", "Restrict", "NoAction", "SetNull", "SetDefault"}
RelationMode == {"ForeignKeys", "Prisma"}
NoQuery == [mode |-> "none", action |-> "none"]

\* A connector is what its required and overridable methods return
Connectors ==
    [referential_actions : SUBSET ReferentialAction,
     emulated_referential_actions : SUBSET ReferentialAction]

supports_referential_action_Swapped(conn, relation_mode, action) ==
    CASE relation_mode = "ForeignKeys" -> action \in conn.emulated_referential_actions
      [] relation_mode = "Prisma" -> action \in conn.referential_actions

\* ValidatedConnector::supports_referential_action
supports_referential_action(conn, relation_mode, action) ==
    CASE relation_mode = "ForeignKeys" -> action \in conn.referential_actions
      [] relation_mode = "Prisma" -> action \in conn.emulated_referential_actions

InitConnector ==
    /\ connector \in Connectors
    /\ refQuery = NoQuery
    /\ refResult = FALSE

\* The validator asks whether an action is legal under a relation mode
AskReferentialAction ==
    \E m \in RelationMode : \E a \in ReferentialAction :
        /\ refQuery' = [mode |-> m, action |-> a]
        /\ refResult' = supports_referential_action(connector, m, a)
        /\ UNCHANGED <<connector, notConnector>>

NextConnector == AskReferentialAction

(***************************************************************************)
(* Trace export: spans_to_json.                                            *)
(***************************************************************************)
MaxSpans == 2

ACCEPT_ATTRIBUTES == {"db.statement", "itx_id", "db.type"}

NoJson == [span |-> FALSE, spans |-> <<>>]

\* Display of an opentelemetry Value
to_string(value) ==
    CASE value.t = "String" -> value.s
      [] value.t = "Bool" -> IF value.b THEN "true" ELSE "false"
      [] value.t = "I64" -> <<"0", "1", "2", "3", "4", "5", "6", "7", "8", "9">>[value.n + 1]

\* The attribute keys spans carry, and the values seen under each
AttributeKeys == ACCEPT_ATTRIBUTES \cup {"user_facing"}
AttributeValues(key) ==
    CASE key = "db.statement" -> {StringValue("SELECT 1"), I64Value(1)}
      [] key = "itx_id" -> {StringValue("tx1")}
      [] key = "db.type" -> {StringValue("postgres")}
      [] OTHER -> {BoolValue(TRUE)}

AttributeMaps ==
    UNION {{f \in [ks -> UNION {AttributeValues(k) : k \in ks}] :
               \A k \in ks : f[k] \in AttributeValues(k)} : ks \in SUBSET AttributeKeys}

\* The ids of a root span and of a child of it, in one trace
SpanContexts ==
    {[trace_id |-> 10, span_id |-> 1, parent_span_id |-> 0],
     [trace_id |-> 10, span_id |-> 2, parent_span_id |-> 1]}

SpanNames == {"quaint:query", "prisma:engine"}

\* The spans collected: no two have the same span id
SpanLists ==
    UNION {{[i \in 1..n |->
               [name |-> ns[i],
                trace_id |-> cs[i].trace_id, span_id |-> cs[i].span_id,
                parent_span_id |-> cs[i].parent_span_id,
                start_time |-> 1, end_time |-> 2,
                attributes |-> as[i]]] :
              ns \in [1..n -> SpanNames],
              cs \in {f \in [1..n -> SpanContexts] :
                         \A i, j \in 1..n : i # j => f[i].span_id # f[j].span_id},
              as \in [1..n -> AttributeMaps]} :
           n \in 0..MaxSpans}

\* Display of a TraceId (width 32) and of a SpanId (width 16): lower-case
\* hexadecimal, padded with zeros
HexDigits == <<"0", "1", "2", "3", "4", "5", "6", "7", "8", "9", "a", "b", "c", "d", "e", "f">>
RECURSIVE id_to_string(_, _)
id_to_string(id, width) ==
    IF width = 0
    THEN <<>>
    ELSE Append(id_to_string(id \div 16, width - 1), HexDigits[(id % 16) + 1])

\* HashMap::insert
Insert(map, key, value) ==
    [k \in DOMAIN map \cup {key} |-> IF k = key THEN value ELSE map[k]]

RECURSIVE fold_attributes_Unfiltered(_, _, _)
fold_attributes_Unfiltered(attributes, keys, map) ==
    IF keys = {}
    THEN map
    ELSE LET key == CHOOSE k \in keys : TRUE
         IN  fold_attributes_Unfiltered(attributes, keys \ {key},
                                        Insert(map, key, to_string(attributes[key])))

\* The fold over span.attributes in span_to_json
RECURSIVE fold_attributes(_, _, _)
fold_attributes(attributes, keys, map) ==
    IF keys = {}
    THEN map
    ELSE LET key == CHOOSE k \in keys : TRUE
         IN  fold_attributes(attributes, keys \ {key},
                             IF key \in ACCEPT_ATTRIBUTES
                             THEN Insert(map, key, to_string(attributes[key]))
                             ELSE map)

span_to_json(span) ==
    [span |-> TRUE,
     trace_id |-> id_to_string(span.trace_id, 32),
     span_id |-> id_to_string(span.span_id, 16),
     parent_span_id |-> id_to_string(span.parent_span_id, 16),
     name |-> IF span.name = "quaint:query" THEN "prisma:db_query" ELSE span.name,
     start_time |-> to_string(I64Value(span.start_time)),
     end_time |-> to_string(I64Value(span.end_time)),
     attributes |-> fold_attributes(span.attributes, DOMAIN span.attributes, <<>>)]

\* spans_to_json: the document serialised (a map of strings and lists, which
\* serde_json::to_string always serialises)
\* The spans collected back to front
spans_to_json_Reversed(list) ==
    [span |-> TRUE, spans |-> [i \in DOMAIN list |-> span_to_json(list[Len(list) + 1 - i])]]

spans_to_json(list) ==
    [span |-> TRUE, spans |-> [i \in DOMAIN list |-> span_to_json(list[i])]]

InitTrace ==
    /\ spans \in SpanLists
    /\ json = NoJson

\* The collected spans are exported
Export ==
    /\ json = NoJson
    /\ json' = spans_to_json(spans)
    /\ UNCHANGED <<spans, notTrace>>

NextTrace == Export

(***************************************************************************)
(* Execution of a Migration Plan.                                          *)
(***************************************************************************)
MaxPlanLen == 3

MigrationSteps == {"create_table", "add_column", "add_foreign_key"}
Plans == UNION {[1..n -> MigrationSteps] : n \in 0..MaxPlanLen}

may_start_Batched(status, st, co) == status = "running"

\* A step may start while the plan runs and no step is in flight
may_start(status, st, co) == status = "running" /\ Len(st) = Len(co)

\* The step to start: the one after the last started
next_step(st) == Len(st) + 1

InitPlan ==
    /\ plan \in Plans
    /\ started = <<>>
    /\ completed = <<>>
    /\ planStatus = IF plan = <<>> THEN "done" ELSE "running"

StartStep ==
    /\ may_start(planStatus, started, completed)
    /\ next_step(started) <= Len(plan)
    /\ started' = Append(started, next_step(started))
    /\ UNCHANGED <<plan, completed, planStatus, notPlan>>

\* The step in flight succeeds
FinishStep ==
    /\ planStatus = "running"
    /\ Len(started) > Len(completed)
    /\ completed' = Append(completed, started[Len(completed) + 1])
    /\ planStatus' = IF Len(completed') = Len(plan) THEN "done" ELSE "running"
    /\ UNCHANGED <<plan, started, notPlan>>

\* The step in flight is rejected by the backend: execution halts
FailStep ==
    /\ planStatus = "running"
    /\ Len(started) > Len(completed)
    /\ planStatus' = "failed"
    /\ UNCHANGED <<plan, started, completed, notPlan>>

NextPlan == StartStep \/ FinishStep \/ FailStep

(***************************************************************************)
(* Migration planning: the diff engine's ordering pass.                    *)
(***************************************************************************)
MaxTables == 2
MaxForeignKeys == 2

Tables == 1..MaxTables

\* A Schema Representation: tables (by name) and foreign keys between them
Schemas ==
    UNION {{[tables |-> ts, fks |-> fs] :
               fs \in {f \in SUBSET (ts \X ts) : Cardinality(f) <= MaxForeignKeys}} :
           ts \in SUBSET Tables}
EmptySchema == [tables |-> {}, fks |-> {}]

CreateTable(t) == [kind |-> "create_table", table |-> t, ref |-> t]
DropTable(t) == [kind |-> "drop_table", table |-> t, ref |-> t]
AddForeignKey(fk) == [kind |-> "add_foreign_key", table |-> fk[1], ref |-> fk[2]]
DropForeignKey(fk) == [kind |-> "drop_foreign_key", table |-> fk[1], ref |-> fk[2]]

\* Steps 1 and 3 of the algorithm: unmatched tables and relations
diff_steps(des, act) ==
    {CreateTable(t) : t \in des.tables \ act.tables}
    \cup {DropTable(t) : t \in act.tables \ des.tables}
    \cup {AddForeignKey(fk) : fk \in des.fks \ act.fks}
    \cup {DropForeignKey(fk) : fk \in act.fks \ des.fks}

\* A foreign key step whose referencing table only is looked at
depends_on_OwnerOnly(x, y) ==
    \/ /\ x.kind = "add_foreign_key"
       /\ y.kind = "create_table"
       /\ y.table = x.table
    \/ /\ x.kind = "drop_table"
       /\ y.kind = "drop_foreign_key"
       /\ x.table = y.table

\* Step 4, the dependencies: step x needs the effect of step y. A foreign key
\* is added once both its tables exist; a table is dropped once no foreign
\* key touches it
depends_on(x, y) ==
    \/ /\ x.kind = "add_foreign_key"
       /\ y.kind = "create_table"
       /\ y.table \in {x.table, x.ref}
    \/ /\ x.kind = "drop_table"
       /\ y.kind = "drop_foreign_key"
       /\ x.table \in {y.table, y.ref}

\* Step 4, the ties: independent steps go by entity name
name_before(x, y) ==
    \/ x.table < y.table
    \/ x.table = y.table /\ x.ref <= y.ref

\* Step 4, the topological placement: of the steps that need no step still
\* to be placed, the first by entity name comes next
RECURSIVE order_steps(_)
order_steps(steps) ==
    IF steps = {}
    THEN <<>>
    ELSE LET ready == {x \in steps : \A y \in steps : ~depends_on(x, y)}
             first == CHOOSE x \in ready : \A y \in ready : name_before(x, y)
         IN  <<first>> \o order_steps(steps \ {first})

InitDiff ==
    /\ desired \in Schemas
    /\ actual \in Schemas
    /\ diffPlan = <<>>
    /\ diffStatus = "idle"

\* One planning call
BuildPlan ==
    /\ diffStatus = "idle"
    /\ diffPlan' = order_steps(diff_steps(desired, actual))
    /\ diffStatus' = "planned"
    /\ UNCHANGED <<desired, actual, notDiff>>

NextDiff == BuildPlan

(***************************************************************************)
(* Capability queries (datamodel_connector.rs).                            *)
(***************************************************************************)
MaxCapabilities == 1

\* The ConnectorCapability flags the helpers of the Connector trait test
ConnectorCapability ==
    {"CompositeTypes", "NamedPrimaryKeys", "NamedForeignKeys", "NamedDefaultValues",
     "ScalarLists", "Enums", "Json", "JsonLists", "AutoIncrement",
     "AutoIncrementAllowedOnNonId", "AutoIncrementMultipleAllowed",
     "AutoIncrementNonIndexedAllowed", "CompoundIds", "DecimalType",
     "RelationFieldsInArbitraryOrder"}

\* A connector is the value its capabilities() returns
CapabilityConnectors ==
    [capabilities : {c \in SUBSET ConnectorCapability : Cardinality(c) <= MaxCapabilities}]

SchemaContents == {"empty", "models"}

capabilities(c) == c.capabilities
has_capability(c, capability) == capability \in capabilities(c)

supports_composite_types(c) == has_capability(c, "CompositeTypes")
supports_named_primary_keys(c) == has_capability(c, "NamedPrimaryKeys")
supports_named_foreign_keys(c) == has_capability(c, "NamedForeignKeys")
supports_named_default_values(c) == has_capability(c, "NamedDefaultValues")
supports_scalar_lists(c) == has_capability(c, "ScalarLists")
supports_enums(c) == has_capability(c, "Enums")
supports_json(c) == has_capability(c, "Json")
supports_json_lists_AsJson(c) == has_capability(c, "Json")
supports_json_lists(c) == has_capability(c, "JsonLists")
supports_auto_increment(c) == has_capability(c, "AutoIncrement")
supports_non_id_auto_increment(c) == has_capability(c, "AutoIncrementAllowedOnNonId")
supports_multiple_auto_increment(c) == has_capability(c, "AutoIncrementMultipleAllowed")
supports_non_indexed_auto_increment(c) == has_capability(c, "AutoIncrementNonIndexedAllowed")
supports_compound_ids(c) == has_capability(c, "CompoundIds")
supports_decimal(c) == has_capability(c, "DecimalType")
allows_relation_fields_in_arbitrary_order(c) == has_capability(c, "RelationFieldsInArbitraryOrder")

CapabilityHelpers ==
    {"supports_composite_types", "supports_named_primary_keys",
     "supports_named_foreign_keys", "supports_named_default_values",
     "supports_scalar_lists", "supports_enums", "supports_json", "supports_json_lists",
     "supports_auto_increment", "supports_non_id_auto_increment",
     "supports_multiple_auto_increment", "supports_non_indexed_auto_increment",
     "supports_compound_ids", "supports_decimal",
     "allows_relation_fields_in_arbitrary_order"}

\* A call: the method, and the flag passed (has_capability only)
NoCapQuery == [method |-> "none", capability |-> "none"]
CapQueries ==
    [method : {"has_capability"}, capability : ConnectorCapability]
    \cup [method : CapabilityHelpers, capability : {"none"}]

\* The method called on connector c
call_capability(c, q) ==
    CASE q.method = "has_capability" -> has_capability(c, q.capability)
      [] q.method = "supports_composite_types" -> supports_composite_types(c)
      [] q.method = "supports_named_primary_keys" -> supports_named_primary_keys(c)
      [] q.method = "supports_named_foreign_keys" -> supports_named_foreign_keys(c)
      [] q.method = "supports_named_default_values" -> supports_named_default_values(c)
      [] q.method = "supports_scalar_lists" -> supports_scalar_lists(c)
      [] q.method = "supports_enums" -> supports_enums(c)
      [] q.method = "supports_json" -> supports_json(c)
      [] q.method = "supports_json_lists" -> supports_json_lists(c)
      [] q.method = "supports_auto_increment" -> supports_auto_increment(c)
      [] q.method = "supports_non_id_auto_increment" -> supports_non_id_auto_increment(c)
      [] q.method = "supports_multiple_auto_increment" -> supports_multiple_auto_increment(c)
      [] q.method = "supports_non_indexed_auto_increment" ->
            supports_non_indexed_auto_increment(c)
      [] q.method = "supports_compound_ids" -> supports_compound_ids(c)
      [] q.method = "supports_decimal" -> supports_decimal(c)
      [] q.method = "allows_relation_fields_in_arbitrary_order" ->
            allows_relation_fields_in_arbitrary_order(c)

InitCap ==
    /\ capConnector \in CapabilityConnectors
    /\ schema \in SchemaContents
    /\ capQuery = NoCapQuery
    /\ capResult = FALSE
    /\ capPrev = [query |-> NoCapQuery, result |-> FALSE]

\* One capability query. The call it supersedes may be kept for comparison
AskCapability ==
    /\ \E q \in CapQueries :
          /\ capQuery' = q
          /\ capResult' = call_capability(capConnector, q)
    /\ \/ capPrev' = capPrev
       \/ capQuery # NoCapQuery /\ capPrev' = [query |-> capQuery, result |-> capResult]
    /\ UNCHANGED <<capConnector, schema, notCap>>

\* The schema under validation changes between queries
EditSchema ==
    /\ schema' \in SchemaContents \ {schema}
    /\ UNCHANGED <<capConnector, capQuery, capResult, capPrev, notCap>>

NextCap == AskCapability \/ EditSchema

(***************************************************************************)
(* Validation hooks (datamodel_connector.rs).                              *)
(***************************************************************************)
MaxDefaults == 2
MaxDiagnostics == 4

\* The value of a scalar field default: a literal, or a function call
DefaultValues ==
    {[kind |-> "literal", name |-> "none", known |-> FALSE],
     [kind |-> "function", name |-> "now", known |-> TRUE],
     [kind |-> "function", name |-> "foo", known |-> FALSE],
     [kind |-> "function", name |-> "bar", known |-> FALSE]}

\* The defaults of a schema, each at its own span
DefaultLists ==
    UNION {{[i \in 1..n |-> [value |-> f[i], span |-> i]] : f \in [1..n -> DefaultValues]} :
           n \in 0..MaxDefaults}

\* A diagnostic collected by an earlier validation
EarlierError == [error |-> "earlier", func_name |-> "none", span |-> 0]

None == [some |-> FALSE, func_name |-> "none"]
Some(name) == [some |-> TRUE, func_name |-> name]
as_function(value) == IF value.kind = "function" THEN Some(value.name) ELSE None

\* db.walk_scalar_field_defaults_with_unknown_function()
walk_scalar_field_defaults_with_unknown_function(db) ==
    SelectSeq(db, LAMBDA d : d.value.kind = "function" /\ ~d.value.known)

new_default_unknown_function(func_name, span) ==
    [error |-> "default_unknown_function", func_name |-> func_name, span |-> span]

push_error(diags, err) == Append(diags, err)

Panicked == <<[error |-> "panic", func_name |-> "unwrap", span |-> 0]>>

\* The loop, abandoned at the first error
validate_loop_FailFast(walk, diags) ==
    IF walk = <<>>
    THEN diags
    ELSE LET f == as_function(Head(walk).value)
         IN  IF ~f.some
             THEN Panicked
             ELSE push_error(diags, new_default_unknown_function(f.func_name, Head(walk).span))

\* The loop: one error pushed for each default walked
RECURSIVE validate_loop(_, _)
validate_loop(walk, diags) ==
    IF walk = <<>>
    THEN diags
    ELSE LET f == as_function(Head(walk).value)
         IN  IF ~f.some
             THEN Panicked
             ELSE validate_loop(Tail(walk),
                      push_error(diags, new_default_unknown_function(f.func_name, Head(walk).span)))

validate_scalar_field_unknown_default_functions(db, diags) ==
    validate_loop(walk_scalar_field_defaults_with_unknown_function(db), diags)

InitValidation ==
    /\ defaults \in DefaultLists
    /\ diagnostics \in {<<>>, <<EarlierError>>}
    /\ diagBefore = diagnostics
    /\ lastValidation = "none"

ValidateScalarFieldUnknownDefaultFunctions ==
    /\ diagnostics # Panicked
    /\ Len(diagnostics) + Len(defaults) <= MaxDiagnostics
    /\ diagBefore' = diagnostics
    /\ diagnostics' = validate_scalar_field_unknown_default_functions(defaults, diagnostics)
    /\ lastValidation' = "validate_scalar_field_unknown_default_functions"
    /\ UNCHANGED <<defaults, notValidation>>

\* The hooks with an empty body
ValidateNativeTypeArguments ==
    /\ diagnostics # Panicked
    /\ diagBefore' = diagnostics
    /\ diagnostics' = diagnostics
    /\ lastValidation' = "validate_native_type_arguments"
    /\ UNCHANGED <<defaults, notValidation>>

ValidateEnum ==
    /\ diagnostics # Panicked
    /\ diagBefore' = diagnostics
    /\ diagnostics' = diagnostics
    /\ lastValidation' = "validate_enum"
    /\ UNCHANGED <<defaults, notValidation>>

ValidateModel ==
    /\ diagnostics # Panicked
    /\ diagBefore' = diagnostics
    /\ diagnostics' = diagnostics
    /\ lastValidation' = "validate_model"
    /\ UNCHANGED <<defaults, notValidation>>

ValidateRelationField ==
    /\ diagnostics # Panicked
    /\ diagBefore' = diagnostics
    /\ diagnostics' = diagnostics
    /\ lastValidation' = "validate_relation_field"
    /\ UNCHANGED <<defaults, notValidation>>

ValidateDatasource ==
    /\ diagnostics # Panicked
    /\ diagBefore' = diagnostics
    /\ diagnostics' = diagnostics
    /\ lastValidation' = "validate_datasource"
    /\ UNCHANGED <<defaults, notValidation>>

NextValidation ==
    \/ ValidateScalarFieldUnknownDefaultFunctions
    \/ ValidateNativeTypeArguments
    \/ ValidateEnum
    \/ ValidateModel
    \/ ValidateRelationField
    \/ ValidateDatasource

(***************************************************************************)
(* Flavour::from_str (datamodel_connector.rs).  A string is the sequence   *)
(* of its characters.                                                      *)
(***************************************************************************)
LowerCase == <<"a", "b", "c", "d", "e", "f", "g", "h", "i", "j", "k", "l", "m", "n", "o", "p", "q", "r", "s", "t", "u", "v", "w", "x", "y", "z">>
UpperCase == <<"A", "B", "C", "D", "E", "F", "G", "H", "I", "J", "K", "L", "M", "N", "O", "P", "Q", "R", "S", "T", "U", "V", "W", "X", "Y", "Z">>
\* U+212A, the one character outside ASCII whose lower case is an ASCII letter
KelvinSign == "KELVIN SIGN"

to_uppercase_char(c) ==
    IF \E i \in DOMAIN LowerCase : LowerCase[i] = c
    THEN UpperCase[CHOOSE i \in DOMAIN LowerCase : LowerCase[i] = c]
    ELSE c

to_lowercase_char(c) ==
    IF \E i \in DOMAIN UpperCase : UpperCase[i] = c
    THEN LowerCase[CHOOSE i \in DOMAIN UpperCase : UpperCase[i] = c]
    ELSE IF c = KelvinSign THEN "k" ELSE c

\* str::to_lowercase
to_lowercase(s) == [i \in DOMAIN s |-> to_lowercase_char(s[i])]

mysql == <<"m", "y", "s", "q", "l">>
postgres == <<"p", "o", "s", "t", "g", "r", "e", "s">>
cockroachdb == <<"c", "o", "c", "k", "r", "o", "a", "c", "h", "d", "b">>
mssql == <<"m", "s", "s", "q", "l">>
sqlite == <<"s", "q", "l", "i", "t", "e">>
postgresql == <<"p", "o", "s", "t", "g", "r", "e", "s", "q", "l">>
sqlserver == <<"s", "q", "l", "s", "e", "r", "v", "e", "r">>
mongodb == <<"m", "o", "n", "g", "o", "d", "b">>

Flavour == {"Cockroach", "Mongo", "Sqlserver", "Mysql", "Postgres", "Sqlite"}

NoFlavour == [tag |-> "none", flavour |-> "none", message |-> <<>>]
FlavourOk(f) == [tag |-> "Ok", flavour |-> f, message |-> <<>>]
FlavourErr(msg) == [tag |-> "Err", flavour |-> "none", message |-> msg]

\* format!("Unknown flavour: {}", s)
UnknownFlavour(s) == <<"U", "n", "k", "n", "o", "w", "n", " ", "f", "l", "a", "v", "o", "u", "r", ":", " ">> \o s

\* The error names the lower-cased text
from_str_LowercasedError(s) ==
    LET l == to_lowercase(s)
    IN  CASE l = mysql -> FlavourOk("Mysql")
          [] l = postgres -> FlavourOk("Postgres")
          [] l = cockroachdb -> FlavourOk("Cockroach")
          [] l = mssql -> FlavourOk("Sqlserver")
          [] l = sqlite -> FlavourOk("Sqlite")
          [] OTHER -> FlavourErr(UnknownFlavour(l))

from_str(s) ==
    LET l == to_lowercase(s)
    IN  CASE l = mysql -> FlavourOk("Mysql")
          [] l = postgres -> FlavourOk("Postgres")
          [] l = cockroachdb -> FlavourOk("Cockroach")
          [] l = mssql -> FlavourOk("Sqlserver")
          [] l = sqlite -> FlavourOk("Sqlite")
          [] OTHER -> FlavourErr(UnknownFlavour(s))

\* Every casing of a word
Casings(w) ==
    {[i \in DOMAIN w |-> IF up[i] THEN to_uppercase_char(w[i]) ELSE w[i]] :
        up \in [DOMAIN w -> BOOLEAN]}

\* The strings parsed: the backend identifiers in every casing, and strings
\* near them
FlavourInputs ==
    UNION {Casings(w) : w \in {mysql, postgres, cockroachdb, mssql, sqlite,
                               postgresql, sqlserver, mongodb}}
    \cup {<<>>, mysql \o <<" ">>, <<" ">> \o sqlite, SubSeq(mssql, 1, 4),
          [cockroachdb EXCEPT ![4] = KelvinSign]}

InitFlavour ==
    /\ flavourInput \in FlavourInputs
    /\ flavourResult = NoFlavour

\* One call of from_str
ParseFlavour ==
    /\ flavourResult = NoFlavour
    /\ flavourResult' = from_str(flavourInput)
    /\ UNCHANGED <<flavourInput, notFlavour>>

NextFlavour == ParseFlavour

(***************************************************************************)
(* SourceFile (source_file.rs).                                            *)
(***************************************************************************)
\* The schema texts given to the constructors
Texts == {"", "model A {}", "model B {}"}

\* enum Contents
Static(content) == [variant |-> "Static", text |-> content]
Allocated(s) == [variant |-> "Allocated", text |-> s]

\* Copies of a string: each holds the characters of the string copied
to_owned(s) == s
into_boxed_str(s) == s
ArcFrom(s) == s

DefaultSourceFile == [contents |-> Static("")]
new_static(content) == [contents |-> Static(content)]
new_allocated(s) == [contents |-> Allocated(s)]

as_str(file) ==
    CASE file.contents.variant = "Static" -> file.contents.text
      [] file.contents.variant = "Allocated" -> file.contents.text

from_str_ref(s) == new_allocated(ArcFrom(into_boxed_str(to_owned(s))))
from_string_ref(s) == new_allocated(ArcFrom(into_boxed_str(to_owned(s))))
from_box(s) == new_allocated(ArcFrom(s))
from_arc(s) == new_allocated(s)
from_string(s) == new_allocated(ArcFrom(into_boxed_str(s)))
deserialize(s) == from_string(s)

\* derive(PartialEq) on SourceFile and on Contents: the same variant, holding
\* equal strings
contents_eq(a, b) == a.variant = b.variant /\ a.text = b.text
source_file_eq(a, b) == contents_eq(a.contents, b.contents)

\* derive(Hash): what is fed to the Hasher, the discriminant and then the
\* string. Two values fed the same hash the same
contents_hash(a) == <<a.variant, a.text>>
source_file_hash(a) == contents_hash(a.contents)

NoCmp == [eq |-> FALSE, hash_eq |-> FALSE, done |-> FALSE]
Slots == {1, 2}

InitSource ==
    /\ sf = [i \in Slots |-> DefaultSourceFile]
    /\ sfMade = [i \in Slots |-> [by |-> "default", text |-> ""]]
    /\ sfCmp = NoCmp

\* One action for each way to build a SourceFile, into slot i
Default ==
    \E i \in Slots :
        /\ sf' = [sf EXCEPT ![i] = DefaultSourceFile]
        /\ sfMade' = [sfMade EXCEPT ![i] = [by |-> "default", text |-> ""]]
        /\ sfCmp' = NoCmp
        /\ UNCHANGED notSource

NewStatic ==
    \E i \in Slots, s \in Texts :
        /\ sf' = [sf EXCEPT ![i] = new_static(s)]
        /\ sfMade' = [sfMade EXCEPT ![i] = [by |-> "new_static", text |-> s]]
        /\ sfCmp' = NoCmp
        /\ UNCHANGED notSource

NewAllocated ==
    \E i \in Slots, s \in Texts :
        /\ sf' = [sf EXCEPT ![i] = new_allocated(s)]
        /\ sfMade' = [sfMade EXCEPT ![i] = [by |-> "new_allocated", text |-> s]]
        /\ sfCmp' = NoCmp
        /\ UNCHANGED notSource

FromStrRef ==
    \E i \in Slots, s \in Texts :
        /\ sf' = [sf EXCEPT ![i] = from_str_ref(s)]
        /\ sfMade' = [sfMade EXCEPT ![i] = [by |-> "from_str_ref", text |-> s]]
        /\ sfCmp' = NoCmp
        /\ UNCHANGED notSource

FromStringRef ==
    \E i \in Slots, s \in Texts :
        /\ sf' = [sf EXCEPT ![i] = from_string_ref(s)]
        /\ sfMade' = [sfMade EXCEPT ![i] = [by |-> "from_string_ref", text |-> s]]
        /\ sfCmp' = NoCmp
        /\ UNCHANGED notSource

FromBox ==
    \E i \in Slots, s \in Texts :
        /\ sf' = [sf EXCEPT ![i] = from_box(s)]
        /\ sfMade' = [sfMade EXCEPT ![i] = [by |-> "from_box", text |-> s]]
        /\ sfCmp' = NoCmp
        /\ UNCHANGED notSource

FromArc ==
    \E i \in Slots, s \in Texts :
        /\ sf' = [sf EXCEPT ![i] = from_arc(s)]
        /\ sfMade' = [sfMade EXCEPT ![i] = [by |-> "from_arc", text |-> s]]
        /\ sfCmp' = NoCmp
        /\ UNCHANGED notSource

FromString ==
    \E i \in Slots, s \in Texts :
        /\ sf' = [sf EXCEPT ![i] = from_string(s)]
        /\ sfMade' = [sfMade EXCEPT ![i] = [by |-> "from_string", text |-> s]]
        /\ sfCmp' = NoCmp
        /\ UNCHANGED notSource

Deserialize ==
    \E i \in Slots, s \in Texts :
        /\ sf' = [sf EXCEPT ![i] = deserialize(s)]
        /\ sfMade' = [sfMade EXCEPT ![i] = [by |-> "deserialize", text |-> s]]
        /\ sfCmp' = NoCmp
        /\ UNCHANGED notSource

\* The two are compared, and their hashes
Compare ==
    /\ sfCmp = NoCmp
    /\ sfCmp' = [eq |-> source_file_eq(sf[1], sf[2]),
                 hash_eq |-> source_file_hash(sf[1]) = source_file_hash(sf[2]),
                 done |-> TRUE]
    /\ UNCHANGED <<sf, sfMade, notSource>>

NextSource ==
    \/ Default
    \/ NewStatic
    \/ NewAllocated
    \/ FromStrRef
    \/ FromStringRef
    \/ FromBox
    \/ FromArc
    \/ FromString
    \/ Deserialize
    \/ Compare


(***************************************************************************)
(* The groups at rest, and the specifications.                             *)
(***************************************************************************)
IdleConnector ==
    /\ connector = [referential_actions |-> {}, emulated_referential_actions |-> {}]
    /\ refQuery = NoQuery
    /\ refResult = FALSE
IdleTrace == spans = <<>> /\ json = NoJson
IdlePlan == plan = <<>> /\ started = <<>> /\ completed = <<>> /\ planStatus = "done"

IdleDiff ==
    /\ desired = EmptySchema
    /\ actual = EmptySchema
    /\ diffPlan = <<>>
    /\ diffStatus = "idle"
IdleCap ==
    /\ capConnector = [capabilities |-> {}]
    /\ schema = "empty"
    /\ capQuery = NoCapQuery
    /\ capResult = FALSE
    /\ capPrev = [query |-> NoCapQuery, result |-> FALSE]
IdleValidation ==
    /\ defaults = <<>>
    /\ diagnostics = <<>>
    /\ diagBefore = <<>>
    /\ lastValidation = "none"
IdleFlavour == flavourInput = <<>> /\ flavourResult = NoFlavour
IdleSource ==
    /\ sf = [i \in {1, 2} |-> DefaultSourceFile]
    /\ sfMade = [i \in {1, 2} |-> [by |-> "default", text |-> ""]]
    /\ sfCmp = NoCmp
IdleCore == IdleConnector /\ IdleRuntime /\ IdleTrace /\ IdlePlan
IdlePsl == IdleCap /\ IdleValidation /\ IdleFlavour /\ IdleSource

\* The execution runtime
Init == InitRuntime /\ IdleConnector /\ IdleTrace /\ IdlePlan /\ IdleDiff /\ IdlePsl
Next == NextRuntime
Spec == Init /\ [][Next]_vars

\* The connector capability model
ConnectorInit == InitConnector /\ IdleRuntime /\ IdleTrace /\ IdlePlan /\ IdleDiff /\ IdlePsl
SpecConnector == ConnectorInit /\ [][NextConnector]_vars

\* The trace export
TraceInit == InitTrace /\ IdleRuntime /\ IdleConnector /\ IdlePlan /\ IdleDiff /\ IdlePsl
SpecTrace == TraceInit /\ [][NextTrace]_vars

\* Capability queries
CapInit == InitCap /\ IdleCore /\ IdleDiff /\ IdleValidation /\ IdleFlavour /\ IdleSource
SpecCapabilities == CapInit /\ [][NextCap]_vars

\* Validation hooks
ValidationInit == InitValidation /\ IdleCore /\ IdleDiff /\ IdleCap /\ IdleFlavour /\ IdleSource
SpecValidation == ValidationInit /\ [][NextValidation]_vars

\* Flavour::from_str
FlavourInit == InitFlavour /\ IdleCore /\ IdleDiff /\ IdleCap /\ IdleValidation /\ IdleSource
SpecFlavour == FlavourInit /\ [][NextFlavour]_vars

\* SourceFile
SourceInit == InitSource /\ IdleCore /\ IdleDiff /\ IdleCap /\ IdleValidation /\ IdleFlavour
SpecSourceFile == SourceInit /\ [][NextSource]_vars

\* Migration planning
DiffInit == InitDiff /\ IdleCore /\ IdlePsl
SpecDiff == DiffInit /\ [][NextDiff]_vars

\* The execution of a migration plan
PlanInit == InitPlan /\ IdleRuntime /\ IdleConnector /\ IdleTrace /\ IdleDiff /\ IdlePsl
SpecPlan == PlanInit /\ [][NextPlan]_vars

(***************************************************************************)
(* Properties.                                                             *)
(***************************************************************************)

\* C1: supports_referential_action(mode, action) is true exactly when action is
\* in referential_actions() under ForeignKeys, and exactly when it is in
\* emulated_referential_actions() under Prisma; the other set plays no part.
C1_SupportsReferentialActionDispatch ==
    refQuery.mode # "none" =>
        refResult = (IF refQuery.mode = "ForeignKeys"
                     THEN refQuery.action \in connector.referential_actions
                     ELSE refQuery.action \in connector.emulated_referential_actions)

\* C1 witness: under Prisma an action the database enforces but the emulation
\* does not is refused.
C1_Witness ==
    /\ refQuery.mode = "Prisma"
    /\ refQuery.action \in connector.referential_actions
    /\ refQuery.action \notin connector.emulated_referential_actions
    /\ refResult = FALSE

IsoPositions(c) ==
    {i \in DOMAIN txLog[c] : txLog[c][i].op = "set_tx_isolation_level"}
BeginPositions(c) ==
    {i \in DOMAIN txLog[c] : txLog[c][i].op = "raw_cmd" /\ txLog[c][i].args = <<"BEGIN">>}

\* C2: when a transaction with an isolation level is opened on a
\* RuntimeConnection, the underlying connection observes the isolation
\* statement before BEGIN if it requires isolation first and after BEGIN
\* otherwise; the RuntimeConnection's requires_isolation_first() is that of
\* its underlying connection, for both variants.
C2_IsolationOrdering ==
    \A c \in Callers :
        /\ pc[c] \in {"tx_start", "in_tx"} => txFlag[c] = isoFirst
        /\ txIso[c] # NoIso =>
              /\ isoFirst => \A j \in BeginPositions(c) : \E i \in IsoPositions(c) : i < j
              /\ ~isoFirst => \A i \in IsoPositions(c) : \E j \in BeginPositions(c) : j < i
              /\ \A i \in IsoPositions(c) :
                    /\ txLog[c][i].args = <<txIso[c]>>
                    /\ txLog[c][i].conn = handle[c].conn
              /\ pc[c] = "in_tx" => IsoPositions(c) # {} /\ BeginPositions(c) # {}

\* C2 witness: a foreign connection that requires isolation first has opened
\* a transaction with an isolation level.
C2_Witness ==
    \E c \in Callers :
        /\ pool.kind = "Js" /\ isoFirst
        /\ pc[c] = "in_tx" /\ txIso[c] # NoIso

\* C3: check_out on a foreign-supplied pool never waits and never fails: it
\* answers at once with a Js connection holding the pool's reference, however
\* many handles are outstanding; only the native pool suspends a caller.
C3_JsCheckOutImmediate ==
    /\ pool.kind = "Js" =>
          \A c \in Callers :
              /\ pc[c] \notin {"waiting", "failed"}
              /\ coErr[c].type = "none"
              /\ pc[c] # "idle" => handle[c] = JsConnection(pool.queryable)
    /\ \A c \in Callers : pc[c] = "waiting" => pool.kind = "Rust"

\* C3 witness: every caller holds a handle of the foreign pool at once.
C3_Witness ==
    /\ pool.kind = "Js"
    /\ \A c \in Callers : pc[c] = "ready" /\ handle[c].kind = "Js"

Holders == {c \in Callers : handle[c].kind # "None"}

\* C4 as stated: no underlying connection is referenced by two outstanding
\* handles at the same time.
C4_NoSharedConnection ==
    \A c1, c2 \in Holders : c1 # c2 => handle[c1].conn # handle[c2].conn

\* C4 amended: handles of the native pool reference distinct connections and
\* the pool holds exactly the connections no handle references, so a dropped
\* handle's connection is back in the pool; handles of a foreign pool all
\* reference the pool's one shared connection; a caller that is done holds no
\* handle.
C4_NativeExclusiveForeignShared ==
    /\ pool.kind = "Rust" =>
          /\ \A c1, c2 \in Holders : c1 # c2 => handle[c1].conn # handle[c2].conn
          /\ free = NativeConns \ {handle[c].conn : c \in Holders}
    /\ pool.kind = "Js" =>
          \A c \in Holders : handle[c] = JsConnection(pool.queryable)
    /\ \A c \in Callers : pc[c] \in {"idle", "waiting", "failed"} <=> handle[c].kind = "None"

\* C4 witness: a caller's check_out timed out on the exhausted native pool,
\* and every connection has since been dropped back into the pool.
C4_Witness ==
    /\ pool.kind = "Rust"
    /\ \E c \in Callers : pc[c] = "failed" /\ coErr[c].source.kind = "PoolTimeout"
    /\ Holders = {}
    /\ free = NativeConns

\* C5: one call of an operation on a RuntimeConnection, native or foreign,
\* issues exactly one call of the same operation with the same arguments on
\* the underlying connection and returns its result unchanged.
C5_TransparentWrapper ==
    last.op # "none" =>
        /\ Len(last.issued) = 1
        /\ last.issued[1].op = last.op
        /\ last.issued[1].args = last.args
        /\ last.issued[1].conn = last.conn
        /\ last.result = last.ures

\* C5 witness: a failing query_raw_typed on a foreign connection.
C5_Witness ==
    /\ last.op = "query_raw_typed"
    /\ last.kind = "Js"
    /\ last.args = <<"SELECT ?", "p1">>
    /\ last.ures.tag = "Err"

\* C6: the attributes object of every span emitted by spans_to_json holds only
\* allow-listed keys; every allow-listed attribute of the span is kept, with
\* its value as displayed, and every other attribute is dropped.
C6_ExportedAttributesAllowListed ==
    json.span =>
        \A i \in DOMAIN json.spans :
            /\ DOMAIN json.spans[i].attributes \subseteq ACCEPT_ATTRIBUTES
            /\ DOMAIN json.spans[i].attributes
                  = DOMAIN spans[i].attributes \cap ACCEPT_ATTRIBUTES
            /\ \A k \in DOMAIN json.spans[i].attributes :
                  json.spans[i].attributes[k] = to_string(spans[i].attributes[k])

\* C6 witness: an exported span that carried an allow-listed integer attribute
\* and an attribute outside the list.
C6_Witness ==
    /\ json.span
    /\ \E i \in DOMAIN spans :
          /\ "user_facing" \in DOMAIN spans[i].attributes
          /\ "db.statement" \in DOMAIN spans[i].attributes
          /\ spans[i].attributes["db.statement"].t = "I64"
          /\ json.spans[i].attributes["db.statement"] = "1"
          /\ "user_facing" \notin DOMAIN json.spans[i].attributes

\* C7 as stated: every attribute attached to the span of a RuntimeConnection
\* operation is in the allow-list.
C7_SpanAttributesAllowListed ==
    (last.op # "none" /\ last.span # NoSpan) =>
        DOMAIN last.span.attrs \subseteq ACCEPT_ATTRIBUTES

\* C7 amended: the one attribute attached to the span of a RuntimeConnection
\* operation is the constant marker user_facing = true, which is outside the
\* allow-list and is dropped when the span is exported; no operation attaches
\* any other attribute.
C7_SpanCarriesOnlyUserFacing ==
    (last.op # "none" /\ last.span # NoSpan) =>
        /\ DOMAIN last.span.attrs = {"user_facing"}
        /\ last.span.attrs["user_facing"] = BoolValue(TRUE)
        /\ DOMAIN fold_attributes(last.span.attrs, DOMAIN last.span.attrs, <<>>) = {}

\* C7 witness: a query on a foreign connection ran in its span.
C7_Witness ==
    /\ last.op = "query"
    /\ last.kind = "Js"
    /\ last.span # NoSpan

\* C8 as stated: every call of every operation runs inside a tracing scope,
\* on the native and on the foreign variant.
C8_EveryCallInScope ==
    last.op # "none" => last.span # NoSpan

\* C8 amended: every call of every operation on the foreign variant runs
\* inside a tracing scope named runtime_connection::js::<operation>; on the
\* native variant RuntimeConnection opens no scope and calls the pooled
\* connection directly.
C8_ForeignCallsInScope ==
    last.op # "none" =>
        /\ last.kind = "Js" => last.span.name = <<"runtime_connection", "js", last.op>>
        /\ last.kind = "Rust" => last.span = NoSpan

\* C8 witness: is_healthy on a foreign connection ran in its span.
C8_Witness ==
    /\ last.op = "is_healthy"
    /\ last.kind = "Js"
    /\ last.span # NoSpan

\* C9: a failing check_out on the native pool gives the caller a SqlError made
\* from the pool's error and no handle; a failing operation on a connection
\* gives the underlying statement error unchanged; the two are of different
\* types, and neither is turned into a success.
C9_ConnectionAndStatementErrors ==
    /\ \A c \in Callers :
          /\ pc[c] = "failed" =>
                /\ pool.kind = "Rust"
                /\ coErr[c].type = "SqlError"
                /\ coErr[c].source \in PoolErrors
                /\ handle[c] = NoHandle
          /\ pc[c] \in {"ready", "tx_start", "in_tx"} =>
                handle[c].kind = pool.kind /\ coErr[c].type = "none"
    /\ (last.op # "none" /\ last.ures.tag = "Err") =>
          /\ last.result.tag = "Err"
          /\ last.result.val = last.ures.val
          /\ last.result.val.type = "quaint::Error"
          /\ \A c \in Callers : coErr[c].type # last.result.val.type

\* C9 witness: one caller's check_out timed out while another caller's
\* execute failed on its connection.
C9_Witness ==
    /\ \E c \in Callers : pc[c] = "failed" /\ coErr[c].source.kind = "PoolTimeout"
    /\ last.op = "execute"
    /\ last.ures.tag = "Err"

\* C10: the steps of a plan are started in the given order, one at a time, a
\* step only after the one before it has completed; execution halts at the
\* first failing step, which is not retried and after which no step starts.
C10_StrictOrderHaltOnFailure ==
    /\ started = [i \in 1..Len(started) |-> i]
    /\ completed = [i \in 1..Len(completed) |-> i]
    /\ Len(started) <= Len(plan)
    /\ Len(started) - Len(completed) \in {0, 1}
    /\ planStatus = "failed" => Len(started) = Len(completed) + 1
    /\ planStatus = "done" => Len(completed) = Len(plan)

\* C10 witness: the second step of a three-step plan failed and the third was
\* never started.
C10_Witness ==
    /\ Len(plan) = 3
    /\ planStatus = "failed"
    /\ started = <<1, 2>>
    /\ completed = <<1>>

StepPositions(kind, t) ==
    {i \in DOMAIN diffPlan :
        diffPlan[i].kind = kind /\ (diffPlan[i].table = t \/ diffPlan[i].ref = t)}

\* The schema after the steps were applied in order, or Stuck when a step met a
\* schema in which it cannot run
Stuck == [tables |-> {0}, fks |-> {}]
RunStep(sch, st) ==
    CASE sch = Stuck -> Stuck
      [] st.kind = "create_table" ->
            IF st.table \in sch.tables THEN Stuck
            ELSE [sch EXCEPT !.tables = @ \cup {st.table}]
      [] st.kind = "drop_table" ->
            IF st.table \notin sch.tables
               \/ \E fk \in sch.fks : fk[1] = st.table \/ fk[2] = st.table
            THEN Stuck
            ELSE [sch EXCEPT !.tables = @ \ {st.table}]
      [] st.kind = "add_foreign_key" ->
            IF {st.table, st.ref} \subseteq sch.tables /\ <<st.table, st.ref>> \notin sch.fks
            THEN [sch EXCEPT !.fks = @ \cup {<<st.table, st.ref>>}]
            ELSE Stuck
      [] st.kind = "drop_foreign_key" ->
            IF <<st.table, st.ref>> \in sch.fks
            THEN [sch EXCEPT !.fks = @ \ {<<st.table, st.ref>>}]
            ELSE Stuck
RECURSIVE RunPlan(_, _)
RunPlan(sch, steps) ==
    IF steps = <<>> THEN sch ELSE RunPlan(RunStep(sch, Head(steps)), Tail(steps))

\* C11: in every plan the diff engine produces, the create-table step of a
\* table precedes every foreign-key-add step with that table as an endpoint,
\* and every foreign-key-drop step precedes the drop-table step of its
\* tables, so that every step finds the schema it needs.
C11_PlanOrderedByDependency ==
    diffStatus = "planned" =>
        /\ \A t \in Tables :
              /\ \A i \in StepPositions("create_table", t) :
                    \A j \in StepPositions("add_foreign_key", t) : i < j
              /\ \A i \in StepPositions("drop_foreign_key", t) :
                    \A j \in StepPositions("drop_table", t) : i < j
        /\ {diffPlan[i] : i \in DOMAIN diffPlan} = diff_steps(desired, actual)
        /\ RunPlan(actual, diffPlan) = desired

\* C11 witness: a plan that creates a table and adds a foreign key to it, and
\* drops a foreign key and then its table.
C11_Witness ==
    /\ diffStatus = "planned"
    /\ \E i, j, k, l \in DOMAIN diffPlan :
          /\ diffPlan[i].kind = "create_table"
          /\ diffPlan[j].kind = "add_foreign_key" /\ diffPlan[j].ref = diffPlan[i].table
          /\ diffPlan[k].kind = "drop_foreign_key"
          /\ diffPlan[l].kind = "drop_table" /\ diffPlan[l].table = diffPlan[k].table

\* The flag each helper is documented to test
OwnFlag(q) ==
    CASE q.method = "has_capability" -> q.capability
      [] q.method = "supports_composite_types" -> "CompositeTypes"
      [] q.method = "supports_named_primary_keys" -> "NamedPrimaryKeys"
      [] q.method = "supports_named_foreign_keys" -> "NamedForeignKeys"
      [] q.method = "supports_named_default_values" -> "NamedDefaultValues"
      [] q.method = "supports_scalar_lists" -> "ScalarLists"
      [] q.method = "supports_enums" -> "Enums"
      [] q.method = "supports_json" -> "Json"
      [] q.method = "supports_json_lists" -> "JsonLists"
      [] q.method = "supports_auto_increment" -> "AutoIncrement"
      [] q.method = "supports_non_id_auto_increment" -> "AutoIncrementAllowedOnNonId"
      [] q.method = "supports_multiple_auto_increment" -> "AutoIncrementMultipleAllowed"
      [] q.method = "supports_non_indexed_auto_increment" ->
            "AutoIncrementNonIndexedAllowed"
      [] q.method = "supports_compound_ids" -> "CompoundIds"
      [] q.method = "supports_decimal" -> "DecimalType"
      [] q.method = "allows_relation_fields_in_arbitrary_order" ->
            "RelationFieldsInArbitraryOrder"

\* C12: every capability query answers whether its own flag is in the
\* connector's capability set, whatever the schema holds, and a query made
\* again after any other queries and schema changes gets the answer it got
\* before.
C12_CapabilityQueriesPure ==
    /\ capQuery # NoCapQuery =>
          capResult = (OwnFlag(capQuery) \in capConnector.capabilities)
    /\ capPrev.query = capQuery => capPrev.result = capResult

\* C12 witness: a helper answered true is asked again, over a non-empty
\* schema, and answers true again.
C12_Witness ==
    /\ capQuery.method = "supports_json_lists"
    /\ capResult
    /\ capPrev.query = capQuery
    /\ schema = "models"

UnknownDefaults ==
    {i \in DOMAIN defaults : defaults[i].value.kind = "function" /\ ~defaults[i].value.known}
Appended == {i \in DOMAIN diagnostics : i > Len(diagBefore)}
EmptyHooks ==
    {"validate_native_type_arguments", "validate_enum", "validate_model",
     "validate_relation_field", "validate_datasource"}

\* C14: validate_scalar_field_unknown_default_functions never panics, keeps
\* the diagnostics collected before it, and appends exactly one error for each
\* default with an unknown function, carrying that function's name and span;
\* the five hooks with empty bodies leave the diagnostics as they were.
C14_ValidationCollectsAll ==
    /\ diagnostics # Panicked
    /\ lastValidation = "validate_scalar_field_unknown_default_functions" =>
          /\ Len(diagnostics) = Len(diagBefore) + Cardinality(UnknownDefaults)
          /\ SubSeq(diagnostics, 1, Len(diagBefore)) = diagBefore
          /\ \A d \in UnknownDefaults :
                Cardinality({i \in Appended :
                    diagnostics[i] = [error |-> "default_unknown_function",
                                      func_name |-> defaults[d].value.name,
                                      span |-> defaults[d].span]}) = 1
    /\ lastValidation \in EmptyHooks => diagnostics = diagBefore

\* C14 witness: a pass over two defaults with unknown functions, entered with
\* diagnostics already collected, has appended two errors.
C14_Witness ==
    /\ lastValidation = "validate_scalar_field_unknown_default_functions"
    /\ Cardinality(UnknownDefaults) = 2
    /\ diagBefore # <<>>
    /\ Len(diagnostics) = Len(diagBefore) + 2

\* C15: from_str answers every string: Ok with the flavour of the name the
\* lower-cased input spells (mysql, postgres, cockroachdb, mssql, sqlite), and
\* for every other string, "postgresql", "sqlserver" and "mongodb" among them,
\* Err with "Unknown flavour: " followed by the input as it was given; Mongo
\* is never the answer.
C15_FlavourFromStr ==
    flavourResult # NoFlavour =>
        LET l == to_lowercase(flavourInput)
            unknown == [tag |-> "Err", flavour |-> "none",
                        message |-> UnknownFlavour(flavourInput)]
        IN  /\ l = mysql => flavourResult = [tag |-> "Ok", flavour |-> "Mysql", message |-> <<>>]
            /\ l = postgres =>
                  flavourResult = [tag |-> "Ok", flavour |-> "Postgres", message |-> <<>>]
            /\ l = cockroachdb =>
                  flavourResult = [tag |-> "Ok", flavour |-> "Cockroach", message |-> <<>>]
            /\ l = mssql =>
                  flavourResult = [tag |-> "Ok", flavour |-> "Sqlserver", message |-> <<>>]
            /\ l = sqlite =>
                  flavourResult = [tag |-> "Ok", flavour |-> "Sqlite", message |-> <<>>]
            /\ l \notin {mysql, postgres, cockroachdb, mssql, sqlite} =>
                  flavourResult = unknown
            /\ l \in {postgresql, sqlserver, mongodb} => flavourResult = unknown
            /\ flavourResult.flavour # "Mongo"

\* C15 witness: "MongoDB" was refused with its casing kept.
C15_Witness ==
    /\ flavourInput = <<"M", "o", "n", "g", "o", "D", "B">>
    /\ flavourResult.tag = "Err"
    /\ flavourResult.message = UnknownFlavour(<<"M", "o", "n", "g", "o", "D", "B">>)

C17_DeterminedByText ==
    /\ \A i \in Slots : as_str(sf[i]) = sfMade[i].text
    /\ sfCmp.done =>
          /\ sfCmp.eq = (as_str(sf[1]) = as_str(sf[2]))
          /\ sfCmp.hash_eq = (as_str(sf[1]) = as_str(sf[2]))
====
